---- MODULE Spec2Model ----
(***************************************************************************)
(* Model of the nuki-sesami electric door state machine: ElectricDoor of   *)
(* src/nuki_sesami/door.py driven by the pushbutton strategies of          *)
(* src/nuki_sesami/logic.py, and the handling of the lock's messages by    *)
(* the ElectricDoor of src/nuki_sesami/controller.py (the variable ctl).   *)
(*                                                                         *)
(* Every statement of the code that reads or writes state shared between   *)
(* the asyncio loop thread and the gpiozero callback thread is one step    *)
(* (a frame of the thread's continuation).  Under Spec a handler runs to   *)
(* completion as one action (the event loop's own discipline); under       *)
(* SpecThreads the frames of the two threads interleave as the code lets   *)
(* them.                                                                   *)
(***************************************************************************)
EXTENDS Integers, Sequences, FiniteSets, TLC

(* ---------------- enumerations ---------------- *)

\* door_state.DoorState, the enum under its earlier member names
DoorState_openclose1 == 0
DoorState_openclose2 == 1
DoorState_v1_openhold == 2
DoorState_v1 == {DoorState_openclose1, DoorState_openclose2, DoorState_v1_openhold}

\* nuki_sesami.state.DoorState (closed, opened, openhold), in the order of the
\* toggle sequence closed -> opened -> openhold
DoorState_closed == 0
DoorState_opened == 1
DoorState_openhold == 2
DoorState == {DoorState_closed, DoorState_opened, DoorState_openhold}

DoorMode_openclose == 0
DoorMode_openhold == 1

DoorRequestState_none == 0
DoorRequestState_close == 1
DoorRequestState_open == 2
DoorRequestState_openhold == 3
DoorRequestState == {DoorRequestState_none, DoorRequestState_close,
                     DoorRequestState_open, DoorRequestState_openhold}

NukiLockState_locked == 1
NukiLockState_unlocked == 3
NukiLockState_locking == 4
NukiLockState_unlatched == 5
NukiLockState_unlatching == 7
NukiLockState_undefined == 255

NukiLockAction_unlock == 1
NukiLockAction_unlatch == 3

NukiDoorsensorState_door_closed == 2
NukiDoorsensorState_door_opened == 3
NukiDoorsensorState_unknown == 255

NukiLockTrigger_system_bluetooth == 0
NukiLockTrigger_mqtt == 172

\* the values of the IntEnums of lock.py
NukiLockState == (0..7) \cup {253, 254, 255}
NukiLockAction == (1..6) \cup {80, 90}
NukiDoorsensorState == (1..5) \cup {16, 240, 255}
NukiLockTrigger == {0, 1, 2, 3, 6, 171, 172}

\* the value None of _nuki_action and _nuki_action_event, and "nothing published yet"
None == -1

(* ---------------- bounds and inputs ---------------- *)

\* configuration values (config.py defaults 40, 10, 4) and the watchdog's
\* check_interval (default 3.0), in units of time scaled down
DoorOpenTime == 2
DoorCloseTime == 1
LockUnlatchTime == 1
CheckInterval == 1
\* at most this many timed_lock_unlatched tasks sleep at once
MaxTimers == 1

ElapsedCap == (IF DoorOpenTime > DoorCloseTime THEN DoorOpenTime ELSE DoorCloseTime) + 1

LockInputs == {NukiLockState_locked, NukiLockState_unlocked, NukiLockState_unlatched,
               NukiLockState_unlatching}
SensorInputs == {NukiDoorsensorState_door_closed, NukiDoorsensorState_door_opened,
                 NukiDoorsensorState_unknown}
\* NukiLockActionEvent(action, trigger, ...) as one number
NukiLockActionEvent(action, trigger) == action * 1000 + trigger
EventInputs == {NukiLockActionEvent(NukiLockAction_unlatch, NukiLockTrigger_mqtt)}
Strategies == {"openhold", "open", "toggle"}
Threads == {"loop", "gpio"}
Handlers == {"activate", "on_lock_state", "on_lock_action_event", "on_doorsensor_state",
             "on_door_request", "on_pushbutton_pressed", "timed_door_closed",
             "timed_lock_unlatched"}

VARIABLES
    strategy,           \* the PushbuttonStrategy given to __init__
    mqtt,               \* _mqtt / _loop are set (activate has begun)
    door_state,         \* _state
    door_opened,        \* _door_opened, the latch
    nuki_state,         \* _nuki_state
    nuki_doorsensor,    \* _nuki_doorsensor
    nuki_action_event,  \* _nuki_action_event
    opendoor,           \* relay outputs
    openhold_mode,
    openclose_mode,
    elapsed,            \* now - _state_changed, saturating
    since,              \* time since _state was last written, saturating
    wd,                 \* remaining sleep of timed_door_closed, None before it starts
    timers,             \* remaining sleeps of the timed_lock_unlatched tasks
    pub,                \* last value published on the state, mode and mode-relay topics
    thr,                \* per thread: the handler it runs and the frames left
    last,               \* the handler completed last and what it did
    run,                \* what the latest consecutive deliveries did
    quiet,              \* the environment has stopped sending events
    receiving,          \* mqtt_receiver is in its loop over client.messages
    acts,               \* actuations since _state last changed to closed (at most 2 counted)
    trace,              \* the handlers whose completion last and run record
    ctl                 \* the ElectricDoor of controller.py

door_vars == <<strategy, mqtt, door_state, door_opened, nuki_state, nuki_doorsensor,
               nuki_action_event, opendoor, openhold_mode, openclose_mode,
               elapsed, since, wd, timers, pub, thr, last, run, quiet, receiving, acts, trace>>

vars == <<door_vars, ctl>>

(* ---------------- the machine as a record ---------------- *)

\* the shared state plus the running thread's locals: k the frames left,
\* hp/hl/ha/err what this handler published, the number of lock commands
\* among it, the number of its actuations and what it raised
M == [door_state |-> door_state, door_opened |-> door_opened, nuki_state |-> nuki_state,
      nuki_doorsensor |-> nuki_doorsensor,
      nuki_action_event |-> nuki_action_event, opendoor |-> opendoor,
      openhold_mode |-> openhold_mode, openclose_mode |-> openclose_mode,
      mqtt |-> mqtt, elapsed |-> elapsed, since |-> since, wd |-> wd, timers |-> timers,
      pub |-> pub, strategy |-> strategy, acts |-> acts,
      k |-> <<>>, hp |-> {}, hr |-> {}, hl |-> 0, ha |-> 0, err |-> ""]

Commit(r) ==
    /\ door_state' = r.door_state
    /\ door_opened' = r.door_opened
    /\ nuki_state' = r.nuki_state
    /\ nuki_doorsensor' = r.nuki_doorsensor
    /\ nuki_action_event' = r.nuki_action_event
    /\ opendoor' = r.opendoor
    /\ openhold_mode' = r.openhold_mode
    /\ openclose_mode' = r.openclose_mode
    /\ mqtt' = r.mqtt
    /\ elapsed' = r.elapsed
    /\ since' = r.since
    /\ wd' = r.wd
    /\ timers' = r.timers
    /\ pub' = r.pub
    /\ acts' = r.acts

F(l, a) == [l |-> l, a |-> a]

\* continue with frames fs before the frames already waiting
Then(m, fs) == [m EXCEPT !.k = fs \o @]


\* an exception unwinds the whole handler
Raise(m, e) == [m EXCEPT !.err = e, !.k = <<>>]

(* ---------------- publications ---------------- *)

\* client.publish(topic, value, retain=retain): pub is what the broker retains
\* on the door's state, mode, mode-relay and lockAction topics, hp everything
\* the running handler published, hr the topics it published to unretained
Publish(m, topic, v, retain) ==
    [m EXCEPT !.pub = IF retain /\ topic \in DOMAIN @ THEN [@ EXCEPT ![topic] = v] ELSE @,
              !.hp = @ \cup {<<topic, v>>},
              !.hr = IF retain THEN @ ELSE @ \cup {topic},
              !.hl = IF topic = "lockAction" THEN @ + 1 ELSE @]

mqtt_publish_nuki_lock_action(m, a) == Publish(m, "lockAction", a, FALSE)
mqtt_publish_sesami_version(m, a) == Publish(m, "version", a, TRUE)
mqtt_publish_sesami_state(m, a) == Publish(m, "state", a, TRUE)
mqtt_publish_sesami_mode(m, a) == Publish(m, "mode", a, TRUE)
mqtt_publish_sesami_relay_opendoor(m, a) == Publish(m, "opendoor", a, TRUE)
mqtt_publish_sesami_relay_openhold(m, a) == Publish(m, "openhold", a, TRUE)
mqtt_publish_sesami_relay_openclose(m, a) == Publish(m, "openclose", a, TRUE)
\* publishes opendoor=1, sleeps a second, publishes opendoor=0 (see blink_off)
mqtt_publish_sesami_relay_opendoor_blink(m, a) == Publish(m, "opendoor", 1, TRUE)

(* ---------------- ElectricDoor properties ---------------- *)

mode(m) == IF m.door_state = DoorState_openhold THEN DoorMode_openhold ELSE DoorMode_openclose

gpio_openhold_set(m) == m.openhold_mode # 0

\* state.setter, statement by statement
state_189(m, s) ==
    IF s = m.door_state THEN m
    ELSE Then(m, (IF s = DoorState_closed THEN <<F("state_192", 0)>> ELSE <<>>)
                 \o <<F("state_194", s), F("state_195", 0), F("state_196", s)>>)
\* the setter without the reset of the latch
state_192_keep(m, a) == m
state_192(m, a) == [m EXCEPT !.door_opened = FALSE]
state_194(m, s) ==
    [m EXCEPT !.door_state = s, !.since = 0,
              !.acts = IF s = DoorState_closed THEN 0 ELSE @]
state_195(m, a) == [m EXCEPT !.elapsed = 0]
state_196(m, s) ==
    IF m.mqtt THEN Then(m, <<F("mqtt_publish_sesami_state", s), F("state_198", 0)>>) ELSE m
state_198(m, a) == Then(m, <<F("mqtt_publish_sesami_mode", mode(m))>>)

(* ---------------- lock requests and relays ---------------- *)

request_lock_action(m, a) ==
    IF m.mqtt THEN Then(m, <<F("mqtt_publish_nuki_lock_action", a)>>) ELSE m

\* unlatch() without its early return
unlatch_always(m, a) ==
    Then(m, <<F("request_lock_action", NukiLockAction_unlatch)>>)
unlatch(m, a) ==
    IF m.nuki_state = NukiLockState_unlatching THEN m
    ELSE Then(m, <<F("request_lock_action", NukiLockAction_unlatch)>>)

\* open(): the blink turns the opendoor relay on (and off again later, blink_off)
open_226(m, a) ==
    Then([m EXCEPT !.opendoor = 1, !.ha = @ + 1, !.acts = IF @ < 2 THEN @ + 1 ELSE @],
         <<F("open_227", 0)>>)
open_227(m, a) ==
    IF m.mqtt THEN Then(m, <<F("mqtt_publish_sesami_relay_opendoor_blink", 0)>>) ELSE m

openhold_233(m, a) ==
    Then([m EXCEPT !.openhold_mode = 1, !.ha = @ + 1, !.acts = IF @ < 2 THEN @ + 1 ELSE @],
         <<F("openhold_234", 0), F("openhold_235", 0)>>)
openhold_234(m, a) == [m EXCEPT !.openclose_mode = 0]
openhold_235(m, a) ==
    IF m.mqtt
    THEN Then(m, <<F("mqtt_publish_sesami_relay_opendoor", 0),
                   F("mqtt_publish_sesami_relay_openhold", 1),
                   F("mqtt_publish_sesami_relay_openclose", 0),
                   F("mqtt_publish_sesami_mode", DoorMode_openhold)>>)
    ELSE m

close_242(m, a) ==
    Then(m, (IF m.nuki_state \in {NukiLockState_locked, NukiLockState_locking}
             THEN <<F("unlatch", 0)>> ELSE <<>>)
            \o <<F("close_245", 0), F("close_246", 0), F("close_247", 0)>>)
close_245(m, a) == [m EXCEPT !.openhold_mode = 0]
close_246(m, a) == [m EXCEPT !.openclose_mode = 1]
close_247(m, a) ==
    IF m.mqtt
    THEN Then(m, <<F("mqtt_publish_sesami_relay_opendoor", 0),
                   F("mqtt_publish_sesami_relay_openhold", 0),
                   F("mqtt_publish_sesami_relay_openclose", 1),
                   F("mqtt_publish_sesami_mode", DoorMode_openclose)>>)
    ELSE m

(* ---------------- bus handlers ---------------- *)

\* on_lock_unlatched without the check of the latch
on_lock_unlatched_261_nolatch(m, a) ==
    Then(m, <<F("on_lock_unlatched_263", 0), F("on_lock_unlatched_264", 0)>>)
on_lock_unlatched_261(m, a) ==
    IF m.door_opened THEN m
    ELSE Then(m, <<F("on_lock_unlatched_263", 0), F("on_lock_unlatched_264", 0)>>)
\* on_lock_unlatched without setting the latch
on_lock_unlatched_263_unset(m, a) == m
on_lock_unlatched_263(m, a) == [m EXCEPT !.door_opened = TRUE]
on_lock_unlatched_264(m, a) ==
    IF m.door_state = DoorState_openhold
    THEN Then(m, <<F("openhold_233", 0)>>)
    ELSE Then(m, <<F("open_226", 0)>>)

\* run_coroutine(timed_lock_unlatched(...)): one more task asleep for unlatch_time
on_lock_state_254(m, lock) ==
    LET m1 == [m EXCEPT !.nuki_state = lock] IN
    IF lock = NukiLockState_unlatching
    THEN [m1 EXCEPT !.timers = Append(@, LockUnlatchTime)]
    ELSE IF lock = NukiLockState_unlatched
         THEN Then(m1, <<F("on_lock_unlatched_261", 0)>>)
         ELSE m1

on_lock_action_event_280(m, ev) == [m EXCEPT !.nuki_action_event = ev]

on_doorsensor_state_284(m, sensor) ==
    Then([m EXCEPT !.nuki_doorsensor = sensor],
         <<F("on_doorsensor_state_285", sensor), F("on_doorsensor_state_287", sensor)>>)
\* door_closed closes the door from every state, not only from opened
on_doorsensor_state_285_anystate(m, sensor) ==
    IF sensor = NukiDoorsensorState_door_closed /\ m.door_state # DoorState_closed
    THEN Then(m, <<F("state_189", DoorState_closed)>>) ELSE m
on_doorsensor_state_285(m, sensor) ==
    IF sensor = NukiDoorsensorState_door_closed /\ m.door_state = DoorState_opened
    THEN Then(m, <<F("state_189", DoorState_closed)>>) ELSE m
on_doorsensor_state_287(m, sensor) ==
    IF sensor = NukiDoorsensorState_door_opened /\ m.door_state = DoorState_closed
    THEN Then(m, <<F("state_189", DoorState_opened)>>) ELSE m

\* the names bound in module door.py: its imports (lines 3-17) and its own
\* definitions.  DoorRequestState is not among them.
door_globals ==
    {"asyncio", "datetime", "logging", "Logger", "TYPE_CHECKING", "aiomqtt", "Button",
     "DigitalOutputDevice", "SesamiConfig", "NukiDoorsensorState", "NukiLockAction",
     "NukiLockActionEvent", "NukiLockState", "NukiLockTrigger", "DoorMode",
     "DoorOpenTrigger", "DoorState", "Relay", "PushButton", "ElectricDoor",
     "pushbutton_pressed", "timed_door_closed", "timed_lock_unlatched", "mqtt_receiver"}

\* on_door_request: line 292 is the first to look DoorRequestState up
on_door_request_292(m, request) ==
    IF "DoorRequestState" \notin door_globals THEN Raise(m, "NameError")
    ELSE IF request = DoorRequestState_none THEN m
    ELSE IF request = DoorRequestState_open
         THEN IF m.door_state = DoorState_closed
              THEN Then(m, <<F("state_189", DoorState_opened), F("unlatch", 0)>>)
              ELSE m
    ELSE IF request = DoorRequestState_close
         THEN IF m.door_state = DoorState_openhold
              THEN Then(m, <<F("state_189", DoorState_opened), F("close_242", 0)>>)
              ELSE m
    ELSE IF request = DoorRequestState_openhold /\ m.door_state # DoorState_openhold
         THEN Then(m, <<F("state_189", DoorState_openhold), F("unlatch", 0)>>)
         ELSE m


(* ---------------- the receive loop ---------------- *)

\* a payload as payload.split(",") sees it: its fields, each the decimal
\* numeral of v or a text that is no numeral
Num(v) == [int |-> TRUE, v |-> v]
Txt == [int |-> FALSE, v |-> 0]

\* an integer that is a member of none of the enums
NoMember == 99

\* the messages delivered to mqtt_receiver, by topic (after its device prefix)
Messages ==
    << [topic |-> "state", payload |-> <<Txt>>],
       [topic |-> "state", payload |-> <<Num(NoMember)>>],
       [topic |-> "lockAction", payload |-> <<Txt>>],
       [topic |-> "doorsensorState", payload |-> <<Num(NoMember)>>],
       [topic |-> "lockActionEvent",
        payload |-> <<Num(NukiLockAction_unlatch), Num(NukiLockTrigger_mqtt), Num(0), Num(0)>>],
       [topic |-> "lockActionEvent", payload |-> <<Num(NukiLockAction_unlatch), Txt>>],
       [topic |-> "state", payload |-> <<Num(NukiLockState_unlocked)>>],
       [topic |-> "lockAction", payload |-> <<Num(NukiLockAction_unlatch)>>],
       [topic |-> "doorsensorState", payload |-> <<Num(NukiDoorsensorState_door_opened)>>],
       [topic |-> "lockActionEvent",
        payload |-> <<Num(NukiLockAction_unlatch), Num(NukiLockTrigger_mqtt),
                      Num(0), Num(0), Num(0)>>],
       [topic |-> "request/state", payload |-> <<Num(DoorRequestState_open)>>] >>

\* int(payload) succeeds: the payload is one numeral
py_int(payload) == Len(payload) = 1 /\ payload[1].int

\* Enum(int(payload)) of lines 316, 318, 325: ValueError from int() or from
\* the enum, else the handler frame
mqtt_receiver_enum(m, payload, enum, frame) ==
    IF ~py_int(payload) THEN Raise(m, "ValueError")
    ELSE IF payload[1].v \notin enum THEN Raise(m, "ValueError")
    ELSE Then(m, <<F(frame, payload[1].v)>>)

\* ElectricDoor.on_lock_action stores the action, which nothing in door.py reads
on_lock_action_271(m, action) == m

\* lines 320-323: the list of ints, the two enums, then ev[2], ev[3], ev[4]
mqtt_receiver_320(m, ev) ==
    IF \E j \in 1..Len(ev) : ~ev[j].int THEN Raise(m, "ValueError")
    ELSE IF ev[1].v \notin NukiLockAction THEN Raise(m, "ValueError")
    ELSE IF Len(ev) < 2 THEN Raise(m, "IndexError")
    ELSE IF ev[2].v \notin NukiLockTrigger THEN Raise(m, "ValueError")
    ELSE IF Len(ev) < 5 THEN Raise(m, "IndexError")
    ELSE Then(m, <<F("on_lock_action_event_280", NukiLockActionEvent(ev[1].v, ev[2].v))>>)

\* the body of the loop of mqtt_receiver for message i; nothing in it catches
\* an exception
mqtt_receiver_312(m, i) ==
    LET topic == Messages[i].topic
        payload == Messages[i].payload
    IN IF topic = "state"
       THEN mqtt_receiver_enum(m, payload, NukiLockState, "on_lock_state_254")
       ELSE IF topic = "lockAction"
       THEN mqtt_receiver_enum(m, payload, NukiLockAction, "on_lock_action_271")
       ELSE IF topic = "lockActionEvent"
       THEN mqtt_receiver_320(m, payload)
       ELSE IF topic = "doorsensorState"
       THEN mqtt_receiver_enum(m, payload, NukiDoorsensorState, "on_doorsensor_state_284")
       ELSE IF "DoorRequestState" \notin door_globals THEN Raise(m, "NameError")
       ELSE mqtt_receiver_enum(m, payload, DoorRequestState, "on_door_request_292")

(* ---------------- pushbutton strategies (logic.py) ---------------- *)

OpenHoldStrategy_31(m, a) ==
    LET next_state == IF m.door_state = DoorState_closed
                      THEN DoorState_openhold ELSE DoorState_closed
    IN Then(m, <<F("state_189", next_state), F("OpenHoldStrategy_33", 0)>>)
\* the open-and-hold policy calling unlatch() on both branches
OpenHoldStrategy_33_unlatch(m, a) == Then(m, <<F("unlatch", 0)>>)
OpenHoldStrategy_33(m, a) ==
    IF m.door_state = DoorState_openhold
    THEN Then(m, <<F("unlatch", 0)>>)
    ELSE Then(m, <<F("close_242", 0)>>)

\* the open policy calling close() instead of unlatch()
OpenStrategy_49_close(m, a) ==
    Then(m, <<F("state_189", DoorState_opened), F("close_242", 0)>>)
OpenStrategy_49(m, a) ==
    Then(m, <<F("state_189", DoorState_opened), F("unlatch", 0)>>)

\* the successor taken two steps on
ToggleStrategy_63_skip(m, a) ==
    LET next_state == (m.door_state + 2) % Cardinality(DoorState)
    IN Then(m, <<F("state_189", next_state), F("ToggleStrategy_65", 0)>>)
ToggleStrategy_63(m, a) ==
    LET next_state == (m.door_state + 1) % Cardinality(DoorState)
    IN Then(m, <<F("state_189", next_state), F("ToggleStrategy_65", 0)>>)
\* the toggle policy doing nothing on reaching closed
ToggleStrategy_65_nothing(m, a) ==
    IF m.door_state = DoorState_closed
    THEN m
    ELSE Then(m, <<F("ToggleStrategy_67", 0)>>)
ToggleStrategy_65(m, a) ==
    IF m.door_state = DoorState_closed
    THEN Then(m, <<F("unlatch", 0)>>)
    ELSE Then(m, <<F("ToggleStrategy_67", 0)>>)
ToggleStrategy_67(m, a) ==
    IF m.door_state = DoorState_opened
    THEN Then(m, <<F("close_242", 0)>>)
    ELSE m

\* ElectricDoor.on_pushbutton_pressed: self._strategy.on_pushbutton_pressed(self)
on_pushbutton_pressed_307(m, a) ==
    IF m.strategy = "openhold" THEN Then(m, <<F("OpenHoldStrategy_31", 0)>>)
    ELSE IF m.strategy = "open" THEN Then(m, <<F("OpenStrategy_49", 0)>>)
    ELSE Then(m, <<F("ToggleStrategy_63", 0)>>)

\* door_state.next_door_state: DoorState((state + 1) % len(DoorState))
next_door_state(state) == (state + 1) % Cardinality(DoorState_v1)

(* ---------------- watchdog timers ---------------- *)

\* one pass of the loop body of timed_door_closed, after its sleep
timed_door_closed_64(m, a) == Then(m, <<F("timed_door_closed_65", m.elapsed)>>)
\* the watchdog without its branch for opened
timed_door_closed_65_noopened(m, dt) == Then(m, <<F("timed_door_closed_69", dt)>>)
timed_door_closed_65(m, dt) ==
    IF m.door_state = DoorState_opened
    THEN IF dt > DoorOpenTime
         THEN Then(m, <<F("state_189", DoorState_closed)>>) ELSE m
    ELSE Then(m, <<F("timed_door_closed_69", dt)>>)
timed_door_closed_69(m, dt) ==
    IF m.door_state = DoorState_openhold /\ dt > DoorCloseTime
    THEN Then(m, <<F("timed_door_closed_71", 0)>>) ELSE m
timed_door_closed_71(m, a) ==
    IF ~gpio_openhold_set(m) THEN Then(m, <<F("state_189", DoorState_closed)>>) ELSE m
\* back to asyncio.sleep(check_interval)
timed_door_closed_63(m, a) == [m EXCEPT !.wd = CheckInterval]

\* timed_lock_unlatched: the sleep of line 77 is over, the task goes on
timed_lock_unlatched_77(m, a) ==
    Then([m EXCEPT !.timers = Tail(@)], <<F("timed_lock_unlatched_78", 0)>>)
\* the task without its look at the lock after the sleep
timed_lock_unlatched_78_nocheck(m, a) == Then(m, <<F("on_lock_unlatched_261", 0)>>)
timed_lock_unlatched_78(m, a) ==
    IF m.nuki_state # NukiLockState_unlatching THEN m
    ELSE Then(m, <<F("on_lock_unlatched_261", 0)>>)

(* ---------------- activate ---------------- *)

activate_140(m, a) ==
    Then([m EXCEPT !.mqtt = TRUE],
         <<F("activate_143", 0), F("activate_144", 0), F("activate_145", 0),
           F("activate_146", 0),
           F("mqtt_publish_sesami_relay_opendoor", 0),
           F("mqtt_publish_sesami_relay_openhold", 0),
           F("mqtt_publish_sesami_relay_openclose", 1),
           F("mqtt_publish_sesami_version", 1),
           F("activate_152", 0), F("activate_153", 0)>>)
activate_143(m, a) == [m EXCEPT !.opendoor = 0]
activate_144(m, a) == [m EXCEPT !.openhold_mode = 0]
\* activate() leaving the openclose relay as it is
activate_145_skip(m, a) == m
activate_145(m, a) == [m EXCEPT !.openclose_mode = 1]
activate_146(m, a) == [m EXCEPT !.wd = CheckInterval]
activate_152(m, a) == Then(m, <<F("mqtt_publish_sesami_state", m.door_state)>>)
activate_153(m, a) == Then(m, <<F("mqtt_publish_sesami_mode", mode(m))>>)

(* ---------------- execution ---------------- *)

\* one frame of the running thread
Exec(m) ==
    LET f == Head(m.k)
        l == f.l
        a == f.a
        n == [m EXCEPT !.k = Tail(@)]
    IN CASE l = "state_189" -> state_189(n, a)
         [] l = "state_192" -> state_192(n, a)
         [] l = "state_194" -> state_194(n, a)
         [] l = "state_195" -> state_195(n, a)
         [] l = "state_196" -> state_196(n, a)
         [] l = "state_198" -> state_198(n, a)
         [] l = "request_lock_action" -> request_lock_action(n, a)
         [] l = "unlatch" -> unlatch(n, a)
         [] l = "open_226" -> open_226(n, a)
         [] l = "open_227" -> open_227(n, a)
         [] l = "openhold_233" -> openhold_233(n, a)
         [] l = "openhold_234" -> openhold_234(n, a)
         [] l = "openhold_235" -> openhold_235(n, a)
         [] l = "close_242" -> close_242(n, a)
         [] l = "close_245" -> close_245(n, a)
         [] l = "close_246" -> close_246(n, a)
         [] l = "close_247" -> close_247(n, a)
         [] l = "on_lock_state_254" -> on_lock_state_254(n, a)
         [] l = "on_lock_unlatched_261" -> on_lock_unlatched_261(n, a)
         [] l = "on_lock_unlatched_263" -> on_lock_unlatched_263(n, a)
         [] l = "on_lock_unlatched_264" -> on_lock_unlatched_264(n, a)
         [] l = "on_lock_action_event_280" -> on_lock_action_event_280(n, a)
         [] l = "on_doorsensor_state_284" -> on_doorsensor_state_284(n, a)
         [] l = "on_doorsensor_state_285" -> on_doorsensor_state_285(n, a)
         [] l = "on_doorsensor_state_287" -> on_doorsensor_state_287(n, a)
         [] l = "on_door_request_292" -> on_door_request_292(n, a)
         [] l = "on_pushbutton_pressed_307" -> on_pushbutton_pressed_307(n, a)
         [] l = "OpenHoldStrategy_31" -> OpenHoldStrategy_31(n, a)
         [] l = "OpenHoldStrategy_33" -> OpenHoldStrategy_33(n, a)
         [] l = "OpenStrategy_49" -> OpenStrategy_49(n, a)
         [] l = "ToggleStrategy_63" -> ToggleStrategy_63(n, a)
         [] l = "ToggleStrategy_65" -> ToggleStrategy_65(n, a)
         [] l = "ToggleStrategy_67" -> ToggleStrategy_67(n, a)
         [] l = "timed_door_closed_64" -> timed_door_closed_64(n, a)
         [] l = "timed_door_closed_65" -> timed_door_closed_65(n, a)
         [] l = "timed_door_closed_69" -> timed_door_closed_69(n, a)
         [] l = "timed_door_closed_71" -> timed_door_closed_71(n, a)
         [] l = "timed_door_closed_63" -> timed_door_closed_63(n, a)
         [] l = "mqtt_receiver_312" -> mqtt_receiver_312(n, a)
         [] l = "on_lock_action_271" -> on_lock_action_271(n, a)
         [] l = "timed_lock_unlatched_77" -> timed_lock_unlatched_77(n, a)
         [] l = "timed_lock_unlatched_78" -> timed_lock_unlatched_78(n, a)
         [] l = "activate_140" -> activate_140(n, a)
         [] l = "activate_143" -> activate_143(n, a)
         [] l = "activate_144" -> activate_144(n, a)
         [] l = "activate_145" -> activate_145(n, a)
         [] l = "activate_146" -> activate_146(n, a)
         [] l = "activate_152" -> activate_152(n, a)
         [] l = "activate_153" -> activate_153(n, a)
         [] l = "mqtt_publish_nuki_lock_action" -> mqtt_publish_nuki_lock_action(n, a)
         [] l = "mqtt_publish_sesami_version" -> mqtt_publish_sesami_version(n, a)
         [] l = "mqtt_publish_sesami_state" -> mqtt_publish_sesami_state(n, a)
         [] l = "mqtt_publish_sesami_mode" -> mqtt_publish_sesami_mode(n, a)
         [] l = "mqtt_publish_sesami_relay_opendoor" -> mqtt_publish_sesami_relay_opendoor(n, a)
         [] l = "mqtt_publish_sesami_relay_openhold" -> mqtt_publish_sesami_relay_openhold(n, a)
         [] l = "mqtt_publish_sesami_relay_openclose" -> mqtt_publish_sesami_relay_openclose(n, a)
         [] l = "mqtt_publish_sesami_relay_opendoor_blink" ->
                mqtt_publish_sesami_relay_opendoor_blink(n, a)

\* a handler run to completion with no other thread in between
RECURSIVE Run(_)
Run(m) ==
    IF Len(m.k) = 0 THEN m
    ELSE CHOOSE r \in {Run(n) : n \in {Exec(m)}} : TRUE


(* ---------------- state after __init__ ---------------- *)

\* what a handler may change, as seen before it runs
Snap(m) == [door_state |-> m.door_state, door_opened |-> m.door_opened,
            nuki_state |-> m.nuki_state, opendoor |-> m.opendoor,
            openhold_mode |-> m.openhold_mode, openclose_mode |-> m.openclose_mode]

Snap0 == [door_state |-> DoorState_closed, door_opened |-> FALSE,
          nuki_state |-> NukiLockState_undefined, opendoor |-> 0,
          openhold_mode |-> 0, openclose_mode |-> 0]

\* pe: the age of the state-changed timestamp before a press of the button
NoLast == [h |-> "", a |-> 0, pre |-> Snap0, pe |-> 0, hp |-> {}, hr |-> {}, hl |-> 0, ha |-> 0,
           err |-> ""]

\* ul: the latest deliveries of on_lock_state(unlatched) in a row (at most two),
\*     each with the latch before it and the actuations it made
\* tg: the door states visited by presses in a row, from a press at closed on
\* sc: the steps of the open-and-hold scenario completed in a row
\* away: 1 while the oldest sleeping timed_lock_unlatched task has seen the
\*     lock leave unlatching, 2 when that task has just woken (TimerTrace only)
\* rq: 1 after an open or openhold request delivered where it is to be
\*     accepted, 2 after the report of unlatched that follows it
\* op: the same for a press that takes door_state out of closed
NoRun == [ul |-> <<>>, tg |-> <<>>, sc |-> 0, away |-> 0, rq |-> 0, op |-> 0]

\* the handlers recorded to follow one timed_lock_unlatched task
TimerTrace == {"on_lock_state", "timed_lock_unlatched"}

\* with them recorded, one more task may sleep: the lock unlatches a second
\* time while the first task is asleep
TimerCap == IF trace = TimerTrace THEN MaxTimers + 1 ELSE MaxTimers

Idle(t) == Len(thr[t].k) = 0

(* ---------------- controller.py: the variant that checks the trigger ---------------- *)

\* timed_lock_unlatched's defaults unlatch_time=4.0 and check_interval=0.2, in
\* seconds: the task counts t in check intervals, ChecksPerSecond to the second
UnlatchTime == 4
ChecksPerSecond == 5
\* config.py's default of lock_unlatch_time, in seconds
LockUnlatchTimeDefault == 4
\* the configurations of lock_unlatch_time: the default and one second more
LockUnlatchTimes == {LockUnlatchTimeDefault, LockUnlatchTimeDefault + 1}
ControllerElapsedCap == LockUnlatchTimeDefault + 2

ControllerLockActions == {NukiLockAction_unlock, NukiLockAction_unlatch}
ControllerEventInputs ==
    {NukiLockActionEvent(NukiLockAction_unlatch, NukiLockTrigger_system_bluetooth),
     NukiLockActionEvent(NukiLockAction_unlatch, NukiLockTrigger_mqtt),
     NukiLockActionEvent(NukiLockAction_unlock, NukiLockTrigger_mqtt)}
NukiLockActionEvent_action(ev) == ev \div 1000
NukiLockActionEvent_trigger(ev) == ev % 1000

\* controller.ElectricDoor.__init__; tasks are the timed_lock_unlatched tasks
\* (pc "sleep": in its initial sleep with left seconds to go; pc "check": in a
\* sleep of one check interval; t in check intervals), pub the last value
\* published per topic
ControllerDoor(lock_unlatch_time) ==
    [mqtt |-> FALSE, state |-> DoorState_closed, changed |-> 0,
     nuki_state |-> NukiLockState_undefined, nuki_action |-> None,
     nuki_action_event |-> None, lock_unlatch_requested |-> FALSE,
     opendoor |-> 0, openhold_mode |-> 0, openclose_mode |-> 0,
     wd |-> None, tasks |-> <<>>, lock_unlatch_time |-> lock_unlatch_time,
     pub |-> [state |-> None, mode |-> None, openhold |-> None, openclose |-> None,
              lockAction |-> None]]

controller_mode(c) ==
    IF c.state = DoorState_openhold THEN DoorMode_openhold ELSE DoorMode_openclose

controller_request_lock_action(c, action) == [c EXCEPT !.pub.lockAction = action]

\* the setter of ElectricDoor.state
controller_state(c, state) ==
    IF state = c.state THEN c
    ELSE LET d == [c EXCEPT !.state = state, !.changed = 0, !.pub.state = state] IN
         LET e == [d EXCEPT !.pub.mode = controller_mode(d)] IN
         IF state = DoorState_closed /\ e.nuki_action = NukiLockAction_unlatch
         THEN controller_request_lock_action(e, NukiLockAction_unlock)
         ELSE e

controller_open(c) == [c EXCEPT !.opendoor = 1]

controller_openhold(c) ==
    [c EXCEPT !.openhold_mode = 1, !.openclose_mode = 0, !.pub.openhold = 1,
              !.pub.openclose = 0, !.pub.mode = DoorMode_openhold]

controller_unlatch(c) ==
    IF c.nuki_state = NukiLockState_unlatching THEN c
    ELSE [controller_request_lock_action(c, NukiLockAction_unlatch)
             EXCEPT !.lock_unlatch_requested = TRUE]

controller_close(c) ==
    LET d == IF c.nuki_state \in {NukiLockState_locked, NukiLockState_locking}
             THEN controller_request_lock_action(c, NukiLockAction_unlock) ELSE c
    IN [d EXCEPT !.openhold_mode = 0, !.openclose_mode = 1, !.pub.openhold = 0,
                 !.pub.openclose = 1, !.pub.mode = DoorMode_openclose]

\* ElectricDoorPushbuttonOpenHold.on_pushbutton_pressed
controller_on_pushbutton_pressed(c) ==
    LET d == controller_state(c, IF c.state = DoorState_closed
                                 THEN DoorState_openhold ELSE DoorState_closed)
    IN IF d.state = DoorState_openhold THEN controller_unlatch(d) ELSE controller_close(d)

\* ElectricDoorPushbuttonOpen.on_pushbutton_pressed
controller_open_on_pushbutton_pressed(c) ==
    controller_unlatch(controller_state(c, DoorState_opened))

\* ElectricDoorPushbuttonToggle.on_pushbutton_pressed
controller_toggle_on_pushbutton_pressed(c) ==
    LET d == controller_state(c, (c.state + 1) % Cardinality(DoorState))
    IN IF d.state = DoorState_closed THEN controller_unlatch(d)
       ELSE IF d.state = DoorState_opened THEN controller_close(d)
       ELSE d

\* get_electric_door: the class of controller.py for a pushbutton policy
controller_pushbutton(policy, c) ==
    IF policy = "openhold" THEN controller_on_pushbutton_pressed(c)
    ELSE IF policy = "open" THEN controller_open_on_pushbutton_pressed(c)
    ELSE controller_toggle_on_pushbutton_pressed(c)

\* open_door of on_lock_unlatched: the pending event is an unlatch by
\* bluetooth, or by mqtt when this service requested it
controller_open_door(c) ==
    /\ c.nuki_action_event # None
    /\ NukiLockActionEvent_action(c.nuki_action_event) = NukiLockAction_unlatch
    /\ \/ NukiLockActionEvent_trigger(c.nuki_action_event) = NukiLockTrigger_system_bluetooth
       \/ /\ NukiLockActionEvent_trigger(c.nuki_action_event) = NukiLockTrigger_mqtt
          /\ c.lock_unlatch_requested

controller_on_lock_unlatched(c) ==
    IF c.nuki_action_event = None THEN c
    ELSE LET d == [c EXCEPT !.nuki_action_event = None, !.lock_unlatch_requested = FALSE] IN
         IF controller_open_door(c)
         THEN IF c.state = DoorState_openhold THEN controller_openhold(d)
              ELSE controller_open(d)
         ELSE d

controller_on_lock_state(c, lock) ==
    LET d == [c EXCEPT !.nuki_state = lock] IN
    IF lock = NukiLockState_unlatching
    THEN [d EXCEPT !.tasks = Append(@, [pc |-> "sleep", left |-> UnlatchTime, t |-> 0])]
    ELSE IF lock = NukiLockState_unlatched THEN controller_on_lock_unlatched(d)
    ELSE d

controller_activate(c) ==
    LET d == [c EXCEPT !.mqtt = TRUE, !.opendoor = 0, !.openhold_mode = 0,
                       !.openclose_mode = 1, !.wd = CheckInterval] IN
    LET e == controller_request_lock_action(d, NukiLockAction_unlock) IN
    [e EXCEPT !.pub.openhold = 0, !.pub.openclose = 1, !.pub.state = e.state,
              !.pub.mode = controller_mode(e)]

\* check_door_state, one turn of its loop after the sleep
controller_check_door_state(c) ==
    LET d == IF c.state = DoorState_opened
             THEN IF c.changed > DoorOpenTime
                  THEN controller_state(c, DoorState_closed) ELSE c
             ELSE IF c.state = DoorState_openhold
             THEN IF c.changed > c.lock_unlatch_time /\ c.openhold_mode = 0
                  THEN controller_state(c, DoorState_closed) ELSE c
             ELSE c
    IN [d EXCEPT !.wd = CheckInterval]

\* timed_lock_unlatched: the test of its while loop for the oldest task, which sleeps
\* one more check interval or ends
controller_timed_lock_unlatched_while(c, t) ==
    IF t < c.lock_unlatch_time * ChecksPerSecond
    THEN [c EXCEPT !.tasks[1] = [pc |-> "check", left |-> 0, t |-> t]]
    ELSE [c EXCEPT !.tasks = Tail(@)]

\* timed_lock_unlatched: the initial sleep of the oldest task is over
controller_timed_lock_unlatched_slept(c) ==
    controller_timed_lock_unlatched_while(c, UnlatchTime * ChecksPerSecond)

\* timed_lock_unlatched: the body of the loop after the sleep of one interval
controller_timed_lock_unlatched_check(c) ==
    LET t == c.tasks[1].t + 1 IN
    IF c.nuki_state = NukiLockState_unlatched THEN [c EXCEPT !.tasks = Tail(@)]
    ELSE IF c.nuki_state = NukiLockState_unlatching
    THEN IF c.nuki_action_event # None
         THEN controller_on_lock_unlatched([c EXCEPT !.tasks = Tail(@)])
         ELSE controller_timed_lock_unlatched_while(c, t)
    ELSE [c EXCEPT !.tasks = Tail(@)]

(* ---------------- door.py: construction ---------------- *)

\* ElectricDoor.__init__
InitDoor ==
    /\ strategy \in Strategies
    /\ mqtt = FALSE
    /\ door_state = DoorState_closed
    /\ door_opened = FALSE
    /\ nuki_state = NukiLockState_undefined
    /\ nuki_doorsensor = NukiDoorsensorState_unknown
    /\ nuki_action_event = None
    /\ opendoor = 0
    /\ openhold_mode = 0
    /\ openclose_mode = 0
    /\ elapsed = 0
    /\ since = 0
    /\ wd = None
    /\ timers = <<>>
    /\ pub = [state |-> None, mode |-> None, openhold |-> None, openclose |-> None,
              lockAction |-> None]
    /\ thr = [t \in Threads |-> [h |-> "", k |-> <<>>]]
    /\ last = NoLast
    /\ run = NoRun
    /\ quiet = FALSE
    /\ receiving = TRUE
    /\ acts = 0

\* the door of door.py alone: controller.py's is constructed and never activated
InitDoorOnly == InitDoor /\ ctl = ControllerDoor(LockUnlatchTimeDefault)

Init == InitDoorOnly /\ trace = Handlers

(* ---------------- handlers run to completion ---------------- *)

NextRun(h, a, r) ==
    [ul |-> IF h = "on_lock_state" /\ a = NukiLockState_unlatched
            THEN LET e == [latch |-> door_opened, ha |-> r.ha]
                 IN IF Len(run.ul) < 2 THEN Append(run.ul, e) ELSE <<run.ul[2], e>>
            ELSE <<>>,
     tg |-> IF h = "on_pushbutton_pressed"
            THEN IF Len(run.tg) \in 1..3 THEN Append(run.tg, r.door_state)
                 ELSE IF door_state = DoorState_closed
                      THEN <<door_state, r.door_state>> ELSE <<>>
            ELSE <<>>,
     sc |-> IF /\ h = "on_door_request" /\ a = DoorRequestState_openhold
               /\ door_state = DoorState_closed /\ nuki_state = NukiLockState_locked
               /\ ~door_opened /\ openhold_mode = 0 /\ openclose_mode = 1
            THEN 1
            ELSE IF h = "on_lock_state" /\ a = NukiLockState_unlatching /\ run.sc = 1
            THEN 2
            ELSE IF h = "on_lock_state" /\ a = NukiLockState_unlatched /\ run.sc = 2
            THEN 3
            ELSE 0,
     away |-> IF trace # TimerTrace THEN 0
              ELSE IF h = "timed_lock_unlatched"
              THEN IF run.away = 1 THEN 2 ELSE 0
              ELSE IF /\ a # NukiLockState_unlatching /\ nuki_state = NukiLockState_unlatching
                      /\ Len(timers) > 0
              THEN 1
              ELSE IF run.away = 1 THEN 1 ELSE 0,
     rq |-> IF /\ h = "on_door_request"
               /\ \/ a = DoorRequestState_open /\ door_state = DoorState_closed
                  \/ a = DoorRequestState_openhold /\ door_state # DoorState_openhold
            THEN 1
            ELSE IF h = "on_lock_state" /\ run.rq = 1
            THEN IF a = NukiLockState_unlatched THEN 2 ELSE 1
            ELSE 0,
     op |-> IF /\ h = "on_pushbutton_pressed"
               /\ door_state = DoorState_closed /\ r.door_state # DoorState_closed
            THEN 1
            ELSE IF h = "on_lock_state" /\ run.op = 1
            THEN IF a = NukiLockState_unlatched THEN 2 ELSE 1
            ELSE 0]

Handle(h, a, frames) ==
    /\ \A t \in Threads : Idle(t)
    /\ \E r \in {Run([M EXCEPT !.k = frames])} :
          /\ Commit(r)
          /\ last' = IF h \in trace
                     THEN [h |-> h, a |-> a, pre |-> Snap(M),
                           pe |-> IF h = "on_pushbutton_pressed" THEN elapsed ELSE 0,
                           hp |-> r.hp, hr |-> r.hr, hl |-> r.hl, ha |-> r.ha,
                           err |-> r.err]
                     ELSE NoLast
          /\ run' = IF h \in trace THEN NextRun(h, a, r) ELSE NoRun
          /\ receiving' = IF h = "mqtt_receiver" /\ r.err # "" THEN FALSE ELSE receiving
    /\ UNCHANGED <<strategy, thr, quiet, trace, ctl>>

activate ==
    /\ ~mqtt
    /\ Handle("activate", 0, <<F("activate_140", 0)>>)

on_lock_state(lock) ==
    /\ mqtt /\ ~quiet /\ receiving
    /\ lock = NukiLockState_unlatching => Len(timers) < TimerCap
    /\ Handle("on_lock_state", lock, <<F("on_lock_state_254", lock)>>)

on_lock_action_event(ev) ==
    /\ mqtt /\ ~quiet /\ receiving
    /\ Handle("on_lock_action_event", ev, <<F("on_lock_action_event_280", ev)>>)

on_doorsensor_state(sensor) ==
    /\ mqtt /\ ~quiet /\ receiving
    /\ Handle("on_doorsensor_state", sensor, <<F("on_doorsensor_state_284", sensor)>>)

on_door_request(request) ==
    /\ mqtt /\ ~quiet /\ receiving
    /\ Handle("on_door_request", request, <<F("on_door_request_292", request)>>)

\* mqtt_receiver takes message i from client.messages; an exception ends
\* its loop
mqtt_receiver(i) ==
    /\ mqtt /\ ~quiet /\ receiving
    /\ Handle("mqtt_receiver", i, <<F("mqtt_receiver_312", i)>>)

on_pushbutton_pressed ==
    /\ ~quiet
    /\ Handle("on_pushbutton_pressed", 0, <<F("on_pushbutton_pressed_307", 0)>>)

timed_door_closed ==
    /\ wd = 0
    /\ Handle("timed_door_closed", 0,
              <<F("timed_door_closed_64", 0), F("timed_door_closed_63", 0)>>)

timed_lock_unlatched ==
    /\ Len(timers) > 0 /\ Head(timers) = 0
    /\ Handle("timed_lock_unlatched", 0, <<F("timed_lock_unlatched_77", 0)>>)

(* ---------------- time and the blink ---------------- *)

Dec(x) == IF x > 0 THEN x - 1 ELSE x
Inc(x) == IF x < ElapsedCap THEN x + 1 ELSE x

\* one unit of time passes (a handler takes none)
Tick ==
    /\ \A t \in Threads : Idle(t)
    /\ elapsed' = Inc(elapsed)
    /\ since' = Inc(since)
    /\ wd' = Dec(wd)
    /\ timers' = [i \in 1..Len(timers) |-> Dec(timers[i])]
    /\ last' = NoLast
    /\ run' = [NoRun EXCEPT !.away = IF run.away = 1 THEN 1 ELSE 0]
    /\ UNCHANGED <<strategy, mqtt, door_state, door_opened, nuki_state, nuki_doorsensor,
                   nuki_action_event, opendoor, openhold_mode,
                   openclose_mode, pub, thr, quiet, receiving, acts, trace, ctl>>

\* the second of _opendoor.blink(on_time=1, n=1) is over: the relay goes off
\* (the blink coroutine publishes opendoor=0 at the same time)
blink_off ==
    /\ \A t \in Threads : Idle(t)
    /\ opendoor = 1
    /\ opendoor' = 0
    /\ last' = NoLast
    /\ run' = NoRun
    /\ UNCHANGED <<strategy, mqtt, door_state, door_opened, nuki_state, nuki_doorsensor,
                   nuki_action_event, openhold_mode, openclose_mode,
                   elapsed, since, wd, timers, pub, thr, quiet, receiving, acts, trace, ctl>>

Next ==
    \/ activate
    \/ \E lock \in LockInputs : on_lock_state(lock)
    \/ \E ev \in EventInputs : on_lock_action_event(ev)
    \/ \E sensor \in SensorInputs : on_doorsensor_state(sensor)
    \/ \E request \in DoorRequestState : on_door_request(request)
    \/ on_pushbutton_pressed
    \/ timed_door_closed
    \/ timed_lock_unlatched
    \/ Tick
    \/ blink_off

Spec == Init /\ [][Next]_vars

\* the same machine and events, recording the completions of one handler only
LockInit == InitDoorOnly /\ trace = {"on_lock_state"}
SpecLock == LockInit /\ [][Next]_vars

SensorInit == InitDoorOnly /\ trace = {"on_doorsensor_state"}
SpecSensor == SensorInit /\ [][Next]_vars

ButtonInit == InitDoorOnly /\ trace = {"on_pushbutton_pressed"}
SpecButton == ButtonInit /\ [][Next]_vars

ActivateInit == InitDoorOnly /\ trace = {"activate"}
SpecActivate == ActivateInit /\ [][Next]_vars

ReceiverInit == InitDoorOnly /\ trace = {"mqtt_receiver"}
ReceiverNext == Next \/ \E i \in DOMAIN Messages : mqtt_receiver(i)
SpecReceiver == ReceiverInit /\ [][ReceiverNext]_vars

FallbackInit == InitDoorOnly /\ trace = {"timed_lock_unlatched"}
SpecFallback == FallbackInit /\ [][Next]_vars

TimerInit == InitDoorOnly /\ trace = TimerTrace
SpecTimer == TimerInit /\ [][Next]_vars

\* recording the handlers that assign door_state
SetterInit ==
    InitDoorOnly /\ trace = {"on_pushbutton_pressed", "on_doorsensor_state", "timed_door_closed"}
SpecSetter == SetterInit /\ [][Next]_vars

(* ---------------- no further event: fairness of the event loop ---------------- *)

\* from here on the environment delivers nothing and nobody presses the button
EnvQuiet ==
    /\ ~quiet
    /\ quiet' = TRUE
    /\ UNCHANGED <<strategy, mqtt, door_state, door_opened, nuki_state, nuki_doorsensor,
                   nuki_action_event, opendoor, openhold_mode, openclose_mode,
                   elapsed, since, wd, timers, pub, thr, last, run, receiving, acts, trace, ctl>>

LiveInit == InitDoorOnly /\ trace = {"timed_door_closed"}

LiveNext == Next \/ EnvQuiet

\* the service is started, time passes, and the event loop runs a task whose
\* sleep is over
LiveSpec ==
    /\ LiveInit
    /\ [][LiveNext]_vars
    /\ WF_vars(activate)
    /\ WF_vars(Tick)
    /\ WF_vars(timed_door_closed)
    /\ WF_vars(timed_lock_unlatched)

(* ---------------- the gpiozero callback thread ---------------- *)

\* thread t starts handler h: its first frame runs at once
Begin(t, h, a, frames) ==
    /\ Idle(t)
    /\ LET r == Exec([M EXCEPT !.k = frames]) IN
          /\ Commit(r)
          /\ thr' = [thr EXCEPT ![t] = [h |-> IF Len(r.k) = 0 THEN "" ELSE h, k |-> r.k]]
    /\ UNCHANGED <<strategy, last, run, quiet, receiving, trace, ctl>>

\* thread t runs its next frame
Step(t) ==
    /\ ~Idle(t)
    /\ LET r == Exec([M EXCEPT !.k = thr[t].k]) IN
          /\ Commit(r)
          /\ thr' = [thr EXCEPT ![t] = [h |-> IF Len(r.k) = 0 THEN "" ELSE @.h, k |-> r.k]]
    /\ UNCHANGED <<strategy, last, run, quiet, receiving, trace, ctl>>

ThreadLockInputs == {NukiLockState_locked, NukiLockState_unlatched}

\* door.activate(client, loop) on the loop thread
loop_activate ==
    /\ ~mqtt
    /\ Begin("loop", "activate", 0, <<F("activate_140", 0)>>)

\* mqtt_receiver on the loop thread
loop_on_lock_state(lock) ==
    /\ mqtt /\ receiving
    /\ Begin("loop", "on_lock_state", lock, <<F("on_lock_state_254", lock)>>)

\* the watchdog task on the loop thread
loop_timed_door_closed ==
    /\ wd = 0
    /\ Begin("loop", "timed_door_closed", 0,
             <<F("timed_door_closed_64", 0), F("timed_door_closed_63", 0)>>)

\* pushbutton_pressed(button), the when_pressed callback on gpiozero's thread
gpio_pushbutton_pressed ==
    /\ Idle("gpio")
    /\ Begin("gpio", "pushbutton_pressed", 0, <<F("on_pushbutton_pressed_307", 0)>>)

ThreadsInit == InitDoorOnly /\ trace = {}

ThreadsNext ==
    \/ loop_activate
    \/ \E lock \in ThreadLockInputs : loop_on_lock_state(lock)
    \/ loop_timed_door_closed
    \/ gpio_pushbutton_pressed
    \/ Step("loop")
    \/ Step("gpio")
    \/ Tick
    \/ blink_off

SpecThreads == ThreadsInit /\ [][ThreadsNext]_vars

(* ---------------- controller.py: the event loop ---------------- *)

\* door.activate(client, loop) of controller.activate
ControllerActivate ==
    /\ ~ctl.mqtt
    /\ ctl' = controller_activate(ctl)
    /\ UNCHANGED door_vars

\* mqtt_receiver: a message of the lock on nuki/<device>/state
ControllerLockState(lock) ==
    /\ ctl.mqtt /\ ~quiet
    /\ lock = NukiLockState_unlatching => Len(ctl.tasks) < MaxTimers
    /\ ctl' = controller_on_lock_state(ctl, lock)
    /\ UNCHANGED door_vars

\* mqtt_receiver: a message on nuki/<device>/lockAction
ControllerLockAction(action) ==
    /\ ctl.mqtt /\ ~quiet
    /\ ctl' = [ctl EXCEPT !.nuki_action = action]
    /\ UNCHANGED door_vars

\* mqtt_receiver: a message on nuki/<device>/lockActionEvent
ControllerLockActionEvent(ev) ==
    /\ ctl.mqtt /\ ~quiet
    /\ ctl' = [ctl EXCEPT !.nuki_action_event = ev]
    /\ UNCHANGED door_vars

\* a press of the button of an activated door
ControllerPushbuttonPressed ==
    /\ ctl.mqtt /\ ~quiet
    /\ ctl' = controller_on_pushbutton_pressed(ctl)
    /\ UNCHANGED door_vars

ControllerCheckDoorState ==
    /\ ctl.wd = 0
    /\ ctl' = controller_check_door_state(ctl)
    /\ UNCHANGED door_vars

ControllerTimedLockUnlatchedSlept ==
    /\ Len(ctl.tasks) > 0
    /\ ctl.tasks[1].pc = "sleep" /\ ctl.tasks[1].left = 0
    /\ ctl' = controller_timed_lock_unlatched_slept(ctl)
    /\ UNCHANGED door_vars

ControllerTimedLockUnlatchedCheck ==
    /\ Len(ctl.tasks) > 0
    /\ ctl.tasks[1].pc = "check"
    /\ ctl' = controller_timed_lock_unlatched_check(ctl)
    /\ UNCHANGED door_vars

\* one second passes
ControllerTick ==
    /\ ctl' = [ctl EXCEPT
                 !.changed = IF @ < ControllerElapsedCap THEN @ + 1 ELSE @,
                 !.wd = Dec(@),
                 !.tasks = [i \in 1..Len(ctl.tasks) |->
                               [ctl.tasks[i] EXCEPT !.left = Dec(@)]]]
    /\ UNCHANGED door_vars

\* the second of _opendoor.blink(on_time=1, n=1) is over
ControllerBlinkOff ==
    /\ ctl.opendoor = 1
    /\ ctl' = [ctl EXCEPT !.opendoor = 0]
    /\ UNCHANGED door_vars

ControllerInit ==
    /\ InitDoor /\ strategy = "openhold" /\ trace = {}
    /\ ctl \in {ControllerDoor(t) : t \in LockUnlatchTimes}

ControllerNext ==
    \/ ControllerActivate
    \/ \E lock \in LockInputs : ControllerLockState(lock)
    \/ \E action \in ControllerLockActions : ControllerLockAction(action)
    \/ \E ev \in ControllerEventInputs : ControllerLockActionEvent(ev)
    \/ ControllerPushbuttonPressed
    \/ ControllerCheckDoorState
    \/ ControllerTimedLockUnlatchedSlept
    \/ ControllerTimedLockUnlatchedCheck
    \/ ControllerTick
    \/ ControllerBlinkOff
    \/ EnvQuiet

\* the service is started, time passes, and the event loop runs a task whose
\* sleep is over
ControllerSpec ==
    /\ ControllerInit
    /\ [][ControllerNext]_vars
    /\ WF_vars(ControllerActivate)
    /\ WF_vars(ControllerTick)
    /\ WF_vars(ControllerCheckDoorState)
    /\ WF_vars(ControllerTimedLockUnlatchedSlept)
    /\ WF_vars(ControllerTimedLockUnlatchedCheck)

(* ---------------- properties ---------------- *)

\* C1 as stated: two deliveries of on_lock_state(unlatched) in a row, with no
\* other event in between, make exactly one actuation in total
C1_once_exactly ==
    Len(run.ul) = 2 => run.ul[1].ha + run.ul[2].ha = 1

\* C1 amended: two deliveries of on_lock_state(unlatched) in a row make at most
\* one actuation, never two: the second makes none, and the first makes one
\* when the latch was false before it and none when the latch was already set
C1_once_at_most ==
    Len(run.ul) = 2 =>
        /\ run.ul[2].ha = 0
        /\ run.ul[1].ha = (IF run.ul[1].latch THEN 0 ELSE 1)

C1_witness ==
    /\ Len(run.ul) = 2
    /\ ~run.ul[1].latch /\ run.ul[1].ha = 1 /\ run.ul[2].ha = 0

\* C2: between handler executions after activate() has completed, exactly one
\* of the openhold_mode and openclose_mode relays is energized
C2_one_mode_relay ==
    (mqtt /\ \A t \in Threads : Idle(t)) => openhold_mode + openclose_mode = 1

OutOfPrecondition(request, ds) ==
    \/ request = DoorRequestState_none
    \/ request = DoorRequestState_open /\ ds # DoorState_closed
    \/ request = DoorRequestState_close /\ ds # DoorState_openhold
    \/ request = DoorRequestState_openhold /\ ds = DoorState_openhold

\* C3: a door request outside its precondition is a silent no-op: it raises
\* nothing, door_state, the latch and the relays are unchanged, no state or
\* mode is published and no lock command is issued
C3_request_ignored ==
    (last.h = "on_door_request" /\ OutOfPrecondition(last.a, last.pre.door_state)) =>
        /\ last.err = ""
        /\ Snap(M) = last.pre
        /\ \A p \in last.hp : p[1] \notin {"state", "mode", "lockAction"}

ToggleCycle ==
    <<DoorState_closed, DoorState_opened, DoorState_openhold, DoorState_closed>>

\* C4: with the toggle policy, presses in a row from closed visit closed ->
\* opened -> openhold -> closed, and the successor function is a 3-cycle over
\* the door-state enum (three applications are the identity)
C4_toggle_cycle ==
    /\ strategy = "toggle" => run.tg = SubSeq(ToggleCycle, 1, Len(run.tg))
    /\ \A s \in DoorState_v1 :
          /\ next_door_state(s) \in DoorState_v1 \ {s}
          /\ next_door_state(next_door_state(s)) # s
          /\ next_door_state(next_door_state(next_door_state(s))) = s

C4_witness ==
    strategy = "toggle" /\ Len(run.tg) = 4 /\ door_state = DoorState_closed

\* C5: once door_state is opened and no further event arrives, the watchdog
\* timed_door_closed eventually sets door_state to closed
C5_autoclose ==
    (quiet /\ door_state = DoorState_opened)
        ~> (door_state = DoorState_closed /\ last.h = "timed_door_closed")

C5_witness ==
    /\ quiet /\ last.h = "timed_door_closed"
    /\ last.pre.door_state = DoorState_opened /\ door_state = DoorState_closed

\* C6: the watchdog never writes closed over opened while the time since the
\* last change of door_state is at most door_open_time
C6_not_before_open_time ==
    (/\ thr["loop"].h = "timed_door_closed" /\ ~Idle("loop")
     /\ Head(thr["loop"].k) = F("state_194", DoorState_closed)
     /\ door_state = DoorState_opened)
        => since > DoorOpenTime

Actuated ==
    /\ door_opened
    /\ IF door_state = DoorState_openhold
       THEN openhold_mode = 1 /\ openclose_mode = 0
       ELSE opendoor = 1

\* C7 in door.py: when a timer is pending, the lock is unlatching and a lock action event
\* has been received, then unless the lock leaves unlatching the timer runs
\* unlatch-confirmed handling and the door is actuated as if unlatched
C7_timeout_actuates ==
    (/\ Len(timers) > 0 /\ nuki_state = NukiLockState_unlatching
     /\ nuki_action_event # None /\ ~door_opened)
        ~> (nuki_state # NukiLockState_unlatching \/ Actuated)

C7_witness ==
    /\ last.h = "timed_lock_unlatched" /\ last.pre.nuki_state = NukiLockState_unlatching
    /\ nuki_action_event # None /\ ~last.pre.door_opened
    /\ last.ha = 1 /\ Actuated

ControllerActuated ==
    IF ctl.state = DoorState_openhold
    THEN ctl.openhold_mode = 1 /\ ctl.openclose_mode = 0
    ELSE ctl.opendoor = 1

\* C7 in controller.py: when a timed_lock_unlatched task is pending, the lock
\* is unlatching and an unlatch event that unlatch-confirmed handling acts on
\* has been received, then unless the lock leaves unlatching or the event is
\* replaced, the task runs unlatch-confirmed handling and the door is actuated
C7_controller_timeout_actuates ==
    (/\ Len(ctl.tasks) > 0 /\ ctl.nuki_state = NukiLockState_unlatching
     /\ controller_open_door(ctl))
        ~> (\/ ctl.nuki_state # NukiLockState_unlatching
            \/ ~controller_open_door(ctl)
            \/ ControllerActuated)

\* C8: when no lock action event was ever received, the unlatch-confirmation
\* timeout does not actuate the door
C8_no_event_no_actuation ==
    (last.h = "timed_lock_unlatched" /\ nuki_action_event = None) => last.ha = 0

\* C9: the open-and-hold scenario from the activated initial state with the
\* lock locked: on_door_request(openhold) sets door_state openhold and
\* publishes an unlatch command; on_lock_state(unlatching) changes neither
\* door_state nor a relay; on_lock_state(unlatched) energizes openhold_mode,
\* de-energizes openclose_mode and publishes mode openhold
C9_openhold_scenario ==
    /\ run.sc = 1 =>
          /\ door_state = DoorState_openhold
          /\ <<"lockAction", NukiLockAction_unlatch>> \in last.hp
    /\ run.sc = 2 =>
          /\ door_state = last.pre.door_state
          /\ opendoor = last.pre.opendoor
          /\ openhold_mode = last.pre.openhold_mode
          /\ openclose_mode = last.pre.openclose_mode
    /\ run.sc = 3 =>
          /\ openhold_mode = 1 /\ openclose_mode = 0
          /\ <<"mode", DoorMode_openhold>> \in last.hp

\* C10: on_doorsensor_state records the sensor value and changes door_state in
\* exactly two cases: door_closed while opened sets closed, door_opened while
\* closed sets opened; in every other combination door_state is unchanged
C10_sensor_transitions ==
    last.h = "on_doorsensor_state" =>
        /\ nuki_doorsensor = last.a
        /\ door_state =
              IF /\ last.a = NukiDoorsensorState_door_closed
                 /\ last.pre.door_state = DoorState_opened
              THEN DoorState_closed
              ELSE IF /\ last.a = NukiDoorsensorState_door_opened
                      /\ last.pre.door_state = DoorState_closed
                   THEN DoorState_opened
                   ELSE last.pre.door_state

C10_witness ==
    /\ last.h = "on_doorsensor_state" /\ last.a = NukiDoorsensorState_door_closed
    /\ last.pre.door_state = DoorState_openhold /\ door_state = DoorState_openhold

LockCommand(action) == <<"lockAction", action>>

\* C11: on_door_request(open) at door_state closed sets door_state opened and
\* issues an unlatch command, unless the lock is unlatched or unlatching
C11_request_open ==
    (last.h = "on_door_request" /\ last.a = DoorRequestState_open
     /\ last.pre.door_state = DoorState_closed) =>
        /\ door_state = DoorState_opened
        /\ LockCommand(NukiLockAction_unlatch) \in last.hp
               <=> last.pre.nuki_state \notin {NukiLockState_unlatched,
                                               NukiLockState_unlatching}

\* C12: on_door_request(close) at door_state openhold sets door_state opened,
\* leaves openhold_mode off and openclose_mode on, and publishes mode openclose
C12_request_close ==
    (last.h = "on_door_request" /\ last.a = DoorRequestState_close
     /\ last.pre.door_state = DoorState_openhold) =>
        /\ door_state = DoorState_opened
        /\ openhold_mode = 0 /\ openclose_mode = 1
        /\ <<"mode", DoorMode_openclose>> \in last.hp
        /\ pub.mode = DoorMode_openclose

\* the presses that run close(): the open-and-hold policy away from closed,
\* the toggle policy at closed
PressCloses ==
    /\ last.h = "on_pushbutton_pressed" /\ mqtt
    /\ \/ strategy = "openhold" /\ last.pre.door_state # DoorState_closed
       \/ strategy = "toggle" /\ last.pre.door_state = DoorState_closed

\* C13: close() issues an unlock command when and only when the lock is locked
\* or locking, and never an unlatch command
C13_close_unlocks ==
    PressCloses =>
        /\ LockCommand(NukiLockAction_unlock) \in last.hp
               <=> last.pre.nuki_state \in {NukiLockState_locked, NukiLockState_locking}
        /\ LockCommand(NukiLockAction_unlatch) \notin last.hp

\* C14: on_door_request(openhold) at door_state closed or opened sets
\* door_state openhold and issues an unlatch request (unlatch() issues none
\* for a lock already unlatching); the request itself switches no relay
C14_request_openhold ==
    (last.h = "on_door_request" /\ last.a = DoorRequestState_openhold
     /\ last.pre.door_state \in {DoorState_closed, DoorState_opened}) =>
        /\ door_state = DoorState_openhold
        /\ last.pre.nuki_state # NukiLockState_unlatching
               => LockCommand(NukiLockAction_unlatch) \in last.hp
        /\ openhold_mode = last.pre.openhold_mode
        /\ openclose_mode = last.pre.openclose_mode
        /\ opendoor = last.pre.opendoor

\* the presses that assign door_state and then call unlatch(), and nothing else:
\* every press of the open policy, the open-and-hold policy at closed, the
\* toggle policy at openhold
PressUnlatches ==
    /\ last.h = "on_pushbutton_pressed"
    /\ \/ strategy = "open"
       \/ strategy = "openhold" /\ last.pre.door_state = DoorState_closed
       \/ strategy = "toggle" /\ last.pre.door_state = DoorState_openhold

\* the door_state such a press assigns before it calls unlatch()
PressAssigns ==
    IF strategy = "open" THEN DoorState_opened
    ELSE IF strategy = "openhold" THEN DoorState_openhold
    ELSE DoorState_closed

UnlatchLeavesDoor ==
    /\ door_state = PressAssigns
    /\ opendoor = last.pre.opendoor
    /\ openhold_mode = last.pre.openhold_mode
    /\ openclose_mode = last.pre.openclose_mode

\* C15 as stated: unlatch() publishes no lock command when the lock is
\* unlatching and exactly one unlatch command for every other lock state, and
\* changes neither door_state nor a relay
C15_unlatch_publishes ==
    PressUnlatches =>
        /\ last.pre.nuki_state = NukiLockState_unlatching => last.hl = 0
        /\ last.pre.nuki_state # NukiLockState_unlatching =>
               last.hl = 1 /\ LockCommand(NukiLockAction_unlatch) \in last.hp
        /\ UnlatchLeavesDoor

\* C15 amended: the same once activate() has set the MQTT client; before
\* that unlatch() publishes nothing
C15_unlatch_publishes_activated ==
    PressUnlatches =>
        /\ (last.pre.nuki_state = NukiLockState_unlatching \/ ~mqtt) => last.hl = 0
        /\ (last.pre.nuki_state # NukiLockState_unlatching /\ mqtt) =>
               last.hl = 1 /\ LockCommand(NukiLockAction_unlatch) \in last.hp
        /\ UnlatchLeavesDoor

C15_witness ==
    /\ PressUnlatches /\ mqtt /\ last.pre.nuki_state = NukiLockState_unlatched
    /\ last.hl = 1 /\ LockCommand(NukiLockAction_unlatch) \in last.hp

\* C16: on_lock_unlatched with the latch false sets the latch and, at
\* door_state openhold, turns openhold_mode on and openclose_mode off and
\* publishes mode openhold, otherwise pulses the opendoor relay once and leaves
\* the mode relays alone; with the latch true it does nothing
C16_unlatch_confirmed ==
    (last.h = "on_lock_state" /\ last.a = NukiLockState_unlatched) =>
        IF last.pre.door_opened
        THEN /\ Snap(M) = [last.pre EXCEPT !.nuki_state = NukiLockState_unlatched]
             /\ last.hp = {} /\ last.ha = 0
        ELSE /\ door_opened /\ door_state = last.pre.door_state /\ last.ha = 1
             /\ IF door_state = DoorState_openhold
                THEN /\ openhold_mode = 1 /\ openclose_mode = 0
                     /\ opendoor = last.pre.opendoor
                     /\ <<"mode", DoorMode_openhold>> \in last.hp
                     /\ pub.mode = DoorMode_openhold
                ELSE /\ opendoor = 1 /\ <<"opendoor", 1>> \in last.hp
                     /\ openhold_mode = last.pre.openhold_mode
                     /\ openclose_mode = last.pre.openclose_mode

C16_witness ==
    /\ last.h = "on_lock_state" /\ last.a = NukiLockState_unlatched
    /\ ~last.pre.door_opened /\ door_opened /\ door_state = DoorState_openhold
    /\ last.pre.openhold_mode = 0 /\ openhold_mode = 1 /\ openclose_mode = 0

\* C17: an unlatched report or the timeout fallback actuates the door only if
\* the last received lock action event is an unlatch triggered by bluetooth or
\* by the bus
C17_trigger_checked ==
    (last.h \in {"on_lock_state", "timed_lock_unlatched"} /\ last.ha > 0) =>
        /\ nuki_action_event # None
        /\ NukiLockActionEvent_action(nuki_action_event) = NukiLockAction_unlatch
        /\ NukiLockActionEvent_trigger(nuki_action_event)
               \in {NukiLockTrigger_system_bluetooth, NukiLockTrigger_mqtt}

\* C18: a stored lock action event does not outlive its use or a fixed
\* timeout: once no further message arrives it is eventually reset to empty
C18_event_reset ==
    (quiet /\ ctl.nuki_action_event # None) ~> (ctl.nuki_action_event = None)

\* a press of the open policy at door_state opened: the setter is given the
\* value door_state already has
PressAssignsSame ==
    /\ last.h = "on_pushbutton_pressed" /\ strategy = "open"
    /\ last.pre.door_state = DoorState_opened

\* what the setter does besides publishing: a change restarts the
\* state-changed timestamp and a change to closed resets the latch; the same
\* value changes nothing, publishes no state or mode and keeps the timestamp
SetterEffects ==
    /\ (last.h # "" /\ door_state # last.pre.door_state) =>
           /\ elapsed = 0
           /\ door_state = DoorState_closed => ~door_opened
    /\ PressAssignsSame =>
           /\ Snap(M) = last.pre /\ elapsed = last.pe
           /\ \A p \in last.hp : p[1] \notin {"state", "mode"}

\* C19 as stated: every change of door_state publishes the new state and the
\* mode derived from it and resets the latch when the new state is closed;
\* assigning the same value changes and publishes nothing
C19_setter_publishes ==
    /\ SetterEffects
    /\ (last.h # "" /\ door_state # last.pre.door_state) =>
           /\ <<"state", door_state>> \in last.hp
           /\ <<"mode", mode(M)>> \in last.hp

\* C19 amended: the state and the mode are published once activate() has set
\* the MQTT client, and not before
C19_setter_publishes_activated ==
    /\ SetterEffects
    /\ (last.h # "" /\ door_state # last.pre.door_state) =>
           IF mqtt
           THEN /\ <<"state", door_state>> \in last.hp
                /\ <<"mode", mode(M)>> \in last.hp
                /\ pub.state = door_state /\ pub.mode = mode(M)
           ELSE last.hp = {}

C19_witness ==
    /\ mqtt /\ last.h # "" /\ last.pre.door_state = DoorState_opened
    /\ last.pre.door_opened /\ door_state = DoorState_closed /\ ~door_opened
    /\ <<"state", DoorState_closed>> \in last.hp
    /\ <<"mode", DoorMode_openclose>> \in last.hp

\* C20: whenever the openhold_mode relay is energized door_state is openhold,
\* and once activated the relays are in the openclose configuration whenever
\* door_state is closed or opened
C20_relay_agrees_with_mode ==
    /\ openhold_mode = 1 => door_state = DoorState_openhold
    /\ (mqtt /\ door_state # DoorState_openhold) =>
           openhold_mode = 0 /\ openclose_mode = 1

\* the machine as __init__ leaves it
StartState ==
    /\ door_state = DoorState_closed /\ nuki_state = NukiLockState_undefined
    /\ nuki_doorsensor = NukiDoorsensorState_unknown /\ ~door_opened /\ ~mqtt

\* what activate() leaves: the relays in the openclose configuration, with
\* the relay values, the state and the mode published
Activated ==
    /\ mqtt /\ opendoor = 0 /\ openhold_mode = 0 /\ openclose_mode = 1
    /\ {<<"opendoor", 0>>, <<"openhold", 0>>, <<"openclose", 1>>,
        <<"state", door_state>>, <<"mode", mode(M)>>} \subseteq last.hp
    /\ pub = [state |-> door_state, mode |-> mode(M), openhold |-> 0, openclose |-> 1,
              lockAction |-> None]

\* C21: at service start door_state is closed, the lock undefined, the door
\* sensor unknown and the latch false; when activate() has run the relays are
\* in the openclose configuration and the relay values, the state and the
\* mode are published
C21_start_and_activate ==
    StartState /\ [](last.h = "activate" => Activated)

C21_witness ==
    last.h = "activate" /\ Activated /\ door_state = DoorState_closed

\* C22: activate() issues an unlock lock command besides setting the relays
\* to the openclose configuration
C22_activate_unlocks ==
    last.h = "activate" =>
        /\ LockCommand(NukiLockAction_unlock) \in last.hp
        /\ openhold_mode = 0 /\ openclose_mode = 1

\* what a call of unlatch() by the last handler leaves behind: the relays as
\* they were, no relay value published, and the unlatch command published
\* unless the lock was unlatching or there is no MQTT client
UnlatchInvoked ==
    /\ opendoor = last.pre.opendoor
    /\ openhold_mode = last.pre.openhold_mode
    /\ openclose_mode = last.pre.openclose_mode
    /\ \A v \in 0..1 : <<"openhold", v>> \notin last.hp /\ <<"openclose", v>> \notin last.hp
    /\ LockCommand(NukiLockAction_unlatch) \in last.hp
           <=> (mqtt /\ last.pre.nuki_state # NukiLockState_unlatching)

\* what a call of close() by the last handler leaves behind: the relays in
\* the openclose configuration, published together with mode openclose
CloseInvoked ==
    /\ opendoor = last.pre.opendoor
    /\ openhold_mode = 0 /\ openclose_mode = 1
    /\ mqtt => {<<"opendoor", 0>>, <<"openhold", 0>>, <<"openclose", 1>>,
                <<"mode", DoorMode_openclose>>} \subseteq last.hp

\* C23: under the open-and-hold policy a press at closed sets openhold and
\* invokes unlatch(), a press in any other state sets closed and invokes
\* close(); a press never produces opened
C23_openhold_policy ==
    (last.h = "on_pushbutton_pressed" /\ strategy = "openhold") =>
        /\ last.pre.door_state = DoorState_closed =>
               door_state = DoorState_openhold /\ UnlatchInvoked
        /\ last.pre.door_state # DoorState_closed =>
               door_state = DoorState_closed /\ CloseInvoked
        /\ door_state \in {DoorState_closed, DoorState_openhold}

C23_witness ==
    /\ last.h = "on_pushbutton_pressed" /\ strategy = "openhold" /\ mqtt
    /\ last.pre.door_state = DoorState_openhold /\ last.pre.openhold_mode = 1
    /\ door_state = DoorState_closed /\ openhold_mode = 0

\* a step that takes the door of the open policy back to closed
OpenPolicyCloses ==
    strategy = "open" /\ door_state # DoorState_closed /\ door_state' = DoorState_closed

\* C24: under the open policy every press sets opened and invokes unlatch(),
\* never close(); the door returns to closed only through the watchdog or a
\* door_closed report of the door sensor
C24_open_policy ==
    /\ []((last.h = "on_pushbutton_pressed" /\ strategy = "open") =>
              door_state = DoorState_opened /\ UnlatchInvoked)
    /\ [][OpenPolicyCloses =>
              \/ last'.h = "timed_door_closed"
              \/ last'.h = "on_doorsensor_state"
                    /\ last'.a = NukiDoorsensorState_door_closed]_vars

C24_witness ==
    /\ last.h = "on_pushbutton_pressed" /\ strategy = "open" /\ mqtt
    /\ last.pre.door_state = DoorState_closed /\ door_state = DoorState_opened
    /\ LockCommand(NukiLockAction_unlatch) \in last.hp

\* the last handler called neither unlatch() nor close(): no lock command,
\* the relays as they were, no relay value published
NothingInvoked ==
    /\ last.hl = 0
    /\ opendoor = last.pre.opendoor
    /\ openhold_mode = last.pre.openhold_mode
    /\ openclose_mode = last.pre.openclose_mode
    /\ \A v \in 0..1 : <<"openhold", v>> \notin last.hp /\ <<"openclose", v>> \notin last.hp

WatchdogAtOpenhold ==
    wd = 0 /\ last'.h = "timed_door_closed" /\ door_state = DoorState_openhold

\* C26 in door.py: a pass of timed_door_closed at door_state openhold sets
\* closed when more than door_close_time has passed since the last change of
\* door_state and the openhold relay is off, and leaves openhold alone while
\* the relay is on
C26_autoclose_openhold ==
    [][WatchdogAtOpenhold =>
          /\ (elapsed > DoorCloseTime /\ openhold_mode = 0) => door_state' = DoorState_closed
          /\ openhold_mode # 0 => door_state' = DoorState_openhold]_vars

C26_witness ==
    /\ last.h = "timed_door_closed" /\ last.pre.door_state = DoorState_openhold
    /\ last.pre.openhold_mode = 0 /\ door_state = DoorState_closed

\* a pass of controller.py's check_door_state
ControllerWatchdog == ctl.wd = 0 /\ ctl'.wd = CheckInterval

\* C26 in controller.py: a pass of check_door_state at state openhold, more
\* than door_close_time after the last change of state and with the openhold
\* relay off, sets closed; with the relay on it leaves openhold alone
C26_controller_autoclose_openhold ==
    [][(ControllerWatchdog /\ ctl.state = DoorState_openhold) =>
          /\ (ctl.changed > DoorCloseTime /\ ctl.openhold_mode = 0)
                 => ctl'.state = DoorState_closed
          /\ ctl.openhold_mode # 0 => ctl'.state = DoorState_openhold]_vars

\* the last handler changed neither the latch nor a relay and published nothing
NoEffect ==
    /\ door_opened = last.pre.door_opened
    /\ opendoor = last.pre.opendoor
    /\ openhold_mode = last.pre.openhold_mode
    /\ openclose_mode = last.pre.openclose_mode
    /\ door_state = last.pre.door_state
    /\ last.hp = {} /\ last.ha = 0

\* C27: a timed_lock_unlatched task that wakes after the lock has left
\* unlatching at some moment of its sleep has no effect
C27_timer_exits ==
    (last.h = "timed_lock_unlatched" /\ run.away = 2) => NoEffect

\* the lock is not unlatching when the task wakes: it has no effect
C27_witness ==
    /\ last.h = "timed_lock_unlatched" /\ run.away = 2
    /\ nuki_state # NukiLockState_unlatching /\ NoEffect

\* the enum a topic's payload is converted to
TopicEnum(topic) ==
    IF topic = "state" THEN NukiLockState
    ELSE IF topic = "lockAction" THEN NukiLockAction
    ELSE IF topic = "doorsensorState" THEN NukiDoorsensorState
    ELSE DoorRequestState

\* a malformed message: a payload that is no integer, an integer that is no
\* value of the topic's enum, or a lockActionEvent of fewer than five integers
Malformed(msg) ==
    LET p == msg.payload IN
    IF msg.topic = "lockActionEvent"
    THEN \/ \E j \in 1..Len(p) : ~p[j].int
         \/ Len(p) < 5
         \/ p[1].v \notin NukiLockAction
         \/ p[2].v \notin NukiLockTrigger
    ELSE \/ Len(p) # 1
         \/ ~p[1].int
         \/ p[1].v \notin TopicEnum(msg.topic)

MalformedReceived == last.h = "mqtt_receiver" /\ Malformed(Messages[last.a])

\* C28: a malformed message leaves the machine as it was, and mqtt_receiver
\* goes on receiving the messages after it
C28_malformed_noop ==
    MalformedReceived =>
        /\ Snap(M) = last.pre /\ last.hp = {}
        /\ receiving

\* the machine is as it was, but the receive loop is over
C28_witness ==
    MalformedReceived /\ Snap(M) = last.pre /\ last.hp = {} /\ ~receiving

\* C29: the steps of a pushbutton handler never interleave with the steps of
\* a bus handler or a watchdog: while a press is part-way through, the event
\* loop is between handlers
C29_press_not_interleaved ==
    (thr["gpio"].h = "pushbutton_pressed" /\ ~Idle("gpio")) => Idle("loop")

RetainedTopics == {"state", "mode", "lockAction"}

\* C30: every publication of the door state, of the door mode and of a lock
\* command is retained: the broker holds the value published last on each of
\* the three topics
C30_retained ==
    /\ last.hr \cap RetainedTopics = {}
    /\ \A p \in last.hp : p[1] \in RetainedTopics
            => \E q \in last.hp : q[1] = p[1] /\ pub[q[1]] = q[2]

\* the state and the mode are retained
C30_witness ==
    /\ last.h = "on_pushbutton_pressed" /\ <<"state", door_state>> \in last.hp
    /\ "state" \notin last.hr /\ "mode" \notin last.hr
    /\ pub.state = door_state /\ pub.mode = mode(M)

\* the deliveries of the bus: the first frame of each handler with each input
Deliveries ==
    {F("on_lock_state_254", lock) : lock \in LockInputs}
        \cup {F("on_lock_action_event_280", ev) : ev \in EventInputs}
        \cup {F("on_doorsensor_state_284", sensor) : sensor \in SensorInputs}
        \cup {F("on_door_request_292", request) : request \in DoorRequestState}

\* the machine after handler frame f has run on m, counting from zero
Deliver(m, f) ==
    Run([m EXCEPT !.k = <<f>>, !.hp = {}, !.hr = {}, !.hl = 0, !.ha = 0, !.err = ""])

\* what the claim compares: door_state, the latch, the lock state, the relays
\* (Snap) and the sensor state
Observed(m) == <<Snap(m), m.nuki_doorsensor>>

\* a second delivery of f changes nothing observed and adds neither an
\* actuation nor a lock command
Idempotent(f) ==
    LET once == Deliver(M, f)
        twice == Deliver(once, f)
    IN /\ Observed(twice) = Observed(once)
       /\ twice.ha = 0 /\ twice.hl = 0

\* C31: every bus handler is idempotent under immediate re-delivery: in each
\* reachable state and for each input, the handler applied twice leaves the
\* same door_state, lock state, sensor state, latch and relays, and as many
\* actuations and lock commands, as the handler applied once
C31_idempotent ==
    mqtt => \A f \in Deliveries : Idempotent(f)

\* a sensor report has just opened the door, and its re-delivery is evaluated
C31_witness ==
    /\ mqtt /\ last.h = "on_doorsensor_state"
    /\ last.a = NukiDoorsensorState_door_opened
    /\ last.pre.door_state = DoorState_closed /\ door_state = DoorState_opened
    /\ Observed(Deliver(M, F("on_doorsensor_state_284", last.a))) = Observed(M)

\* the last handler actuated the door: a pulse of opendoor, or the openhold
\* relay configuration when door_state is openhold
ActuatedNow ==
    /\ last.ha = 1
    /\ IF door_state = DoorState_openhold
       THEN openhold_mode = 1 /\ openclose_mode = 0
       ELSE opendoor = 1

\* C32: an open or openhold request delivered where it is to be accepted is
\* accepted (door_state leaves closed, or becomes openhold), and the report of
\* unlatched that follows it actuates the door, whatever the lock reported
\* before the request
C32_request_actuated ==
    /\ run.rq = 1 /\ last.h = "on_door_request" =>
          IF last.a = DoorRequestState_openhold
          THEN door_state = DoorState_openhold ELSE door_state # DoorState_closed
    /\ run.rq = 2 => ActuatedNow

\* the same for an opening accepted from the pushbutton: the report of
\* unlatched that follows the press actuates the door
C32_press_actuated ==
    run.op = 2 => ActuatedNow

\* C33: in every reachable state, door_state closed implies that the
\* door-opened latch is false
C33_closed_latch_clear ==
    door_state = DoorState_closed => ~door_opened

\* C34: between two consecutive changes of door_state to closed, and before
\* the first, the door is actuated at most once
C34_one_actuation ==
    acts <= 1

\* this step actuates the door: open() or openhold() runs in it
Actuates ==
    \/ acts' > acts
    \/ opendoor' > opendoor
    \/ openhold_mode' > openhold_mode

\* C35: the door is actuated only while the recorded lock state is unlatched
\* or unlatching; no step of any handler (a request, a press, a sensor report
\* or a watchdog check included) actuates while the lock is in another state
C35_actuation_needs_unlatch ==
    [][Actuates =>
          nuki_state' \in {NukiLockState_unlatched, NukiLockState_unlatching}]_vars

\* the fallback has actuated the door with the lock still unlatching
C35_witness ==
    /\ last.h = "timed_lock_unlatched" /\ last.ha = 1 /\ acts = 1
    /\ nuki_state = NukiLockState_unlatching /\ door_opened

\* the task that has just woken was started by an earlier entry into
\* unlatching: the lock has left unlatching during its sleep, and the task
\* started by a later entry is still asleep
StaleTimerWoke ==
    /\ last.h = "timed_lock_unlatched" /\ run.away = 2
    /\ Len(timers) > 0 /\ timers[1] > 0

\* C36: the fallback does not actuate earlier than lock_unlatch_time after the
\* most recent entry into unlatching: a task started by an earlier entry does
\* not actuate on behalf of a later one
C36_timer_of_latest_entry ==
    StaleTimerWoke => last.ha = 0 /\ door_opened = last.pre.door_opened

\* the initial wait of the oldest timed_lock_unlatched task of controller.py
\* ends in this step
ControllerInitialWaitEnds ==
    /\ Len(ctl.tasks) > 0
    /\ ctl.tasks[1].pc = "sleep" /\ ctl.tasks[1].left = 0
    /\ ctl' = controller_timed_lock_unlatched_slept(ctl)

\* C37: in controller.py the unlatch-confirmation task, started with the
\* configured lock_unlatch_time, goes on to at least one check of the lock
\* when its initial wait is over
C37_task_checks_lock ==
    [][ControllerInitialWaitEnds =>
          /\ Len(ctl'.tasks) = Len(ctl.tasks)
          /\ ctl'.tasks[1].pc = "check"]_vars

\* with lock_unlatch_time one second above the default the task is in its
\* check loop
C37_witness ==
    /\ ctl.lock_unlatch_time = LockUnlatchTimeDefault + 1
    /\ Len(ctl.tasks) > 0 /\ ctl.tasks[1].pc = "check"
    /\ ctl.nuki_state = NukiLockState_unlatching /\ ctl.nuki_action_event # None

\* C38: once activated and with no handler under way (every publication it
\* queued is out), the last published state is door_state, the last published
\* mode is the mode derived from door_state, and the last published
\* relay/openhold and relay/openclose are the relay outputs
C38_published_is_actual ==
    (mqtt /\ \A t \in Threads : Idle(t)) =>
        /\ pub.state = door_state
        /\ pub.mode = mode(M)
        /\ pub.openhold = openhold_mode
        /\ pub.openclose = openclose_mode

\* an activated ElectricDoor of controller.py in the door state, lock state
\* and relay outputs of s, with no lock command published yet
ControllerAt(s) ==
    [ControllerDoor(LockUnlatchTimeDefault) EXCEPT
        !.mqtt = TRUE, !.state = s.door_state, !.nuki_state = s.nuki_state,
        !.opendoor = s.opendoor, !.openhold_mode = s.openhold_mode,
        !.openclose_mode = s.openclose_mode]

\* the lock commands among the publications hp
LockCommands(hp) == {e[2] : e \in {x \in hp : x[1] = "lockAction"}}

\* door.py after the press just handled agrees with controller.py's class for
\* the same policy pressed in the same state
SamePress ==
    LET c == controller_pushbutton(strategy, ControllerAt(last.pre)) IN
    /\ door_state = c.state
    /\ opendoor = c.opendoor
    /\ openhold_mode = c.openhold_mode
    /\ openclose_mode = c.openclose_mode
    /\ LockCommands(last.hp) = {c.pub.lockAction} \ {None}

\* C39: for each pushbutton policy and every door_state and lock state, a
\* press handled by the strategy objects of logic.py on door.py gives the same
\* next door_state, the same relay outputs and the same lock command as the
\* class of controller.py for that policy
C39_same_as_controller ==
    (mqtt /\ last.h = "on_pushbutton_pressed") => SamePress

\* a press at closed under the openhold policy with the lock locked: both
\* implementations go to openhold and command an unlatch
C39_witness ==
    /\ mqtt /\ last.h = "on_pushbutton_pressed" /\ strategy = "openhold"
    /\ last.pre.door_state = DoorState_closed /\ last.pre.nuki_state = NukiLockState_locked
    /\ LockCommands(last.hp) = {NukiLockAction_unlatch}
    /\ SamePress

====
